---- MODULE Spec2Model ----
(***************************************************************************)
(* Model of app.py: a Streamlit chat front-end over a SQL database.        *)
(*                                                                         *)
(* Streamlit re-executes the script top to bottom on every interaction:    *)
(*   ChatApp() -> run(): sidebar(); display_chat_history();                *)
(*   handle_user_query().                                                  *)
(* pc is the position of the current script run; "idle" means the script   *)
(* has finished and the page waits for the next interaction.               *)
(* st.session_state is the only state that survives a run: the keys that   *)
(* are present, the chat_history list and the db handle.                   *)
(***************************************************************************)
EXTENDS Integers, Sequences, FiniteSets, TLC

(* ------------------------------ bounds -------------------------------- *)

\* number of chat messages a session may submit
MaxTurns == 3

\* texts a user may type into the chat input
Questions == {"q1", "q2"}
\* texts the first model call may return as SQL
SQLs == {"SELECT 1", "DROP TABLE t"}
\* texts the second model call may return as narration
Answers == {"a1"}

\* values the five sidebar text inputs may hold (the first is the defaults)
DefaultForm ==
    [User |-> "root", Password |-> "admin", Host |-> "localhost", Port |-> "3306", Database |-> "chinook"]

OtherForm ==
    [User |-> "root", Password |-> "admin", Host |-> "localhost", Port |-> "3306", Database |-> "sakila"]

Forms == {DefaultForm, OtherForm}

(* ------------------------------ values -------------------------------- *)

\* Python None in the place of a SQLDatabase
None == [tag |-> "None", uri |-> ""]

SQLDatabase(db_uri) == [tag |-> "SQLDatabase", uri |-> db_uri]

AIMessage(content) == [type |-> "AIMessage", content |-> content]

HumanMessage(content) == [type |-> "HumanMessage", content |-> content]

Greeting == AIMessage("Hello! I'm SQL assistant. Ask me anything about your database.")

error_message ==
    "An error occurred while processing your request. This could be due to hitting the API limit or other issues. Please try again later."

NotConnectedText == "Database not connected. Please connect to the database first."

FailedToConnectText == "Failed to connect: e"

ConnectedText == "Connected to the database!"

\* the f-string of DatabaseConnector.connect
DbUri(f) ==
    "mysql+mysqlconnector://" \o f.User \o ":" \o f.Password \o "@" \o f.Host \o ":" \o f.Port \o "/" \o f.Database

\* Truthy with the test lost: the branch is always taken
Truthy_always(d) == TRUE

\* truth value of st.session_state.db in "if st.session_state.db:"
Truthy(d) == d # None

(* --------------------------- interactions ----------------------------- *)

NoEvent == [kind |-> "none", text |-> ""]

ConnectEvent == [kind |-> "connect", text |-> ""]

ChatEvent(q) == [kind |-> "chat", text |-> q]

(* ------------------------------ state --------------------------------- *)

VARIABLES
    pc,            \* position of the running script, or "idle"
    event,         \* the interaction that triggered the current run
    form,          \* values of the sidebar text inputs
    keys,          \* keys present in st.session_state
    chat_history,  \* st.session_state.chat_history (<<>> while the key is absent)
    db,            \* st.session_state.db (None while the key is absent)
    connector_db,  \* self.db_connector.db of the ChatApp object of this run
    screen,        \* what the current run has drawn so far
    events,        \* calls made on the database and the model during this run
    last,          \* how generate_response ended in this run, if it was called
    turns,         \* history: one record per submitted chat message
    nSeeded        \* history: how often init_session_state seeded the log

vars == <<pc, event, form, keys, chat_history, db, connector_db, screen, events, last, turns, nSeeded>>

NoCall == [called |-> FALSE, raised |-> FALSE, failed |-> FALSE, value |-> ""]

Init ==
    /\ pc = "idle"
    /\ event = NoEvent
    /\ form = DefaultForm
    /\ keys = {}
    /\ chat_history = <<>>
    /\ db = None
    /\ connector_db = None
    /\ screen = <<>>
    /\ events = <<>>
    /\ last = NoCall
    /\ turns = <<>>
    /\ nSeeded = 0


(* ---------------------- SQLAssistant (pure part) ---------------------- *)

\* steps of one generate_response call that the environment may make fail
Faults == {"build_sql_llm", "build_llm", "schema1", "llm1", "schema2", "run", "llm2"}

\* order in which the two branches of .assign(schema=..., response=...) act
Orders == {"schema_first", "run_first"}

\* one call on the database handle or on the model
Ev(op, ok, d, sql, history, question) ==
    [op |-> op, ok |-> ok, db |-> d.uri, sql |-> sql, chat_history |-> history, question |-> question]

\* get_sql_chain(db).invoke: schema fetch, then the first model call, whose
\* text is the SQL.  The prompt holds the schema and the history only.
InvokeSqlChain(d, history, F, sql) ==
    LET schema == Ev("get_table_info", "schema1" \notin F, d, "", <<>>, "")
        llm == Ev("llm_sql", "llm1" \notin F, d, IF "llm1" \in F THEN "" ELSE sql, history, "")
    IN  IF ~schema.ok THEN [ok |-> FALSE, out |-> "", events |-> <<schema>>]
        ELSE IF ~llm.ok THEN [ok |-> FALSE, out |-> "", events |-> <<schema, llm>>]
        ELSE [ok |-> TRUE, out |-> sql, events |-> <<schema, llm>>]

\* InvokeAssign with the failure of db.run swallowed
InvokeAssign_swallow(d, query, F, order) ==
    LET schema == Ev("get_table_info", "schema2" \notin F, d, "", <<>>, "")
        response == Ev("run", "run" \notin F, d, query, <<>>, "")
    IN  [ok |-> schema.ok,
         events |-> IF order = "schema_first" THEN <<schema, response>> ELSE <<response, schema>>]

\* .assign(schema=..., response=...): both branches are submitted to the
\* executor and both run, in either order; the step fails if one of them does.
InvokeAssign(d, query, F, order) ==
    LET schema == Ev("get_table_info", "schema2" \notin F, d, "", <<>>, "")
        response == Ev("run", "run" \notin F, d, query, <<>>, "")
    IN  [ok |-> schema.ok /\ response.ok,
         events |-> IF order = "schema_first" THEN <<schema, response>> ELSE <<response, schema>>]

\* chain.invoke({"question": ..., "chat_history": ...})
InvokeChain(user_query, d, history, F, sql, ans, order) ==
    LET q == InvokeSqlChain(d, history, F, sql)
        a == InvokeAssign(d, q.out, F, order)
        llm == Ev("llm_answer", "llm2" \notin F, d, q.out, history, user_query)
    IN  IF ~q.ok THEN [ok |-> FALSE, out |-> "", events |-> q.events]
        ELSE IF ~a.ok THEN [ok |-> FALSE, out |-> "", events |-> q.events \o a.events]
        ELSE IF ~llm.ok THEN [ok |-> FALSE, out |-> "", events |-> q.events \o a.events \o <<llm>>]
        ELSE [ok |-> TRUE, out |-> ans, events |-> q.events \o a.events \o <<llm>>]

\* SQLAssistant.generate_response: the two model clients are built before the
\* try; only chain.invoke is inside it.
generate_response(user_query, d, history, F, sql, ans, order) ==
    IF "build_sql_llm" \in F \/ "build_llm" \in F
    THEN [called |-> TRUE, raised |-> TRUE, failed |-> TRUE, value |-> "", events |-> <<>>]
    ELSE LET c == InvokeChain(user_query, d, history, F, sql, ans, order)
         IN  IF c.ok
             THEN [called |-> TRUE, raised |-> FALSE, failed |-> FALSE, value |-> c.out, events |-> c.events]
             ELSE [called |-> TRUE, raised |-> FALSE, failed |-> TRUE, value |-> error_message, events |-> c.events]

(* ------------------------- ChatApp (pure part) ------------------------ *)

\* InitChatHistory without the "not in" test: every run seeds again
InitChatHistory_reseed(ks, history) == <<Greeting>>

\* init_session_state, the chat_history key
InitChatHistory(ks, history) ==
    IF "chat_history" \notin ks THEN <<Greeting>> ELSE history

\* InitDb without the "not in" test: every run forgets the handle
InitDb_reset(ks, d) == None

\* init_session_state, the db key
InitDb(ks, d) ==
    IF "db" \notin ks THEN None ELSE d

\* DbAfterConnect with the handle cleared in the except branch
DbAfterConnect_clear(d, ok, handle) ==
    IF ok THEN handle ELSE None

\* DbAfterConnect with the session handle copied from the connector of this
\* run after the try/except
DbAfterConnect_connector(d, ok, handle) ==
    IF ok THEN handle ELSE connector_db

\* st.session_state.db after the try/except around connect: the assignment
\* happens only when connect returned
DbAfterConnect(d, ok, handle) ==
    IF ok THEN handle ELSE d

\* HistoryArg with only the newest message passed on
HistoryArg_newest(history) == SubSeq(history, Len(history), Len(history))

\* the chat_history argument of generate_response: the session's list itself
HistoryArg(history) == history

\* st.session_state.chat_history.append(HumanMessage(user_query))
AppendQuestion(history, user_query) == Append(history, HumanMessage(user_query))

\* AppendAnswer with the append lost
AppendAnswer_lost(history, response) == history

\* st.session_state.chat_history.append(AIMessage(content=response))
AppendAnswer(history, response) == Append(history, AIMessage(response))

\* one chat bubble of display_chat_history
Render(m) ==
    IF m.type = "AIMessage" THEN [widget |-> "chat_message", role |-> "AI", text |-> m.content]
    ELSE [widget |-> "chat_message", role |-> "Human", text |-> m.content]

RenderAll(history) == [i \in 1..Len(history) |-> Render(history[i])]

Notice(kind, text) == [widget |-> kind, role |-> "", text |-> text]

(* ------------------------------ actions ------------------------------- *)

\* A user interaction (page load, an edit of the form, the Connect button,
\* a submitted chat message) starts a new run of the script.
Interact ==
    /\ pc = "idle"
    /\ \E e \in {NoEvent, ConnectEvent} \cup {ChatEvent(q) : q \in Questions}, f \in Forms :
        /\ keys = {} => (e = NoEvent /\ f = DefaultForm)
        /\ e.kind = "chat" => Len(turns) < MaxTurns
        /\ event' = e
        /\ form' = f
    /\ pc' = "init"
    /\ screen' = <<>>
    /\ events' = <<>>
    /\ last' = NoCall
    /\ UNCHANGED <<keys, chat_history, db, connector_db, turns, nSeeded>>

\* ChatApp.__init__: a new DatabaseConnector (db = None), then init_session_state
ChatApp_init ==
    /\ pc = "init"
    /\ connector_db' = None
    /\ chat_history' = InitChatHistory(keys, chat_history)
    /\ db' = InitDb(keys, db)
    /\ nSeeded' = IF "chat_history" \notin keys THEN nSeeded + 1 ELSE nSeeded
    /\ keys' = keys \cup {"chat_history", "db"}
    /\ pc' = "sidebar"
    /\ UNCHANGED <<event, form, screen, events, last, turns>>

\* ChatApp.sidebar with DatabaseConnector.connect
sidebar ==
    /\ pc = "sidebar"
    /\ IF event.kind = "connect"
       THEN \E ok \in BOOLEAN :
            LET handle == SQLDatabase(DbUri(form))
            IN  /\ connector_db' = IF ok THEN handle ELSE connector_db
                /\ db' = DbAfterConnect(db, ok, handle)
                /\ screen' = Append(screen, IF ok THEN Notice("success", ConnectedText)
                                                  ELSE Notice("error", FailedToConnectText))
       ELSE UNCHANGED <<connector_db, db, screen>>
    /\ pc' = "display"
    /\ UNCHANGED <<event, form, keys, chat_history, events, last, turns, nSeeded>>

\* ChatApp.display_chat_history
display_chat_history ==
    /\ pc = "display"
    /\ screen' = screen \o RenderAll(chat_history)
    /\ pc' = "query"
    /\ UNCHANGED <<event, form, keys, chat_history, db, connector_db, events, last, turns, nSeeded>>

\* ChatApp.handle_user_query, with the generate_response call it makes
handle_user_query ==
    /\ pc = "query"
    /\ IF event.kind = "chat"
       THEN LET user_query == event.text
                h1 == AppendQuestion(chat_history, user_query)
                s1 == Append(screen, Render(HumanMessage(user_query)))
            IN  IF Truthy(db)
                THEN \E F \in SUBSET Faults, sql \in SQLs, ans \in Answers, order \in Orders :
                     LET r == generate_response(user_query, db, HistoryArg(h1), F, sql, ans, order)
                     IN  /\ events' = r.events
                         /\ last' = [called |-> r.called, raised |-> r.raised,
                                     failed |-> r.failed, value |-> r.value]
                         /\ IF r.raised
                            THEN /\ chat_history' = h1
                                 /\ screen' = Append(s1, Notice("exception", ""))
                            ELSE /\ chat_history' = AppendAnswer(h1, r.value)
                                 /\ screen' = (IF r.failed
                                               THEN Append(s1, Notice("error", error_message))
                                               ELSE s1) \o <<Render(AIMessage(r.value))>>
                         /\ turns' = Append(turns, [question |-> user_query, handle |-> db # None,
                                                    outcome |-> IF r.raised THEN "raised"
                                                                ELSE IF r.failed THEN "error"
                                                                ELSE "answer",
                                                    value |-> r.value])
                ELSE /\ chat_history' = h1
                     /\ screen' = Append(s1, Notice("error", NotConnectedText))
                     /\ turns' = Append(turns, [question |-> user_query, handle |-> db # None,
                                                outcome |-> "none", value |-> ""])
                     /\ UNCHANGED <<events, last>>
       ELSE UNCHANGED <<chat_history, screen, events, last, turns>>
    /\ pc' = "idle"
    /\ UNCHANGED <<event, form, keys, db, connector_db, nSeeded>>

Next ==
    \/ Interact
    \/ ChatApp_init
    \/ sidebar
    \/ display_chat_history
    \/ handle_user_query

Spec == Init /\ [][Next]_vars

(* ----------------------- vocabulary of the claims --------------------- *)

IsPrefix(s, t) == Len(s) <= Len(t) /\ SubSeq(t, 1, Len(s)) = s

Seeded == "chat_history" \in keys

IsAI(m) == m.type = "AIMessage"

IsHuman(m) == m.type = "HumanMessage"

\* a turn whose generate_response call returned a string
Answered(t) == t.outcome \in {"error", "answer"}

AnsweredUpTo(k) == Cardinality({j \in 1..k : Answered(turns[j])})

\* position in the log of the user message of turn k, and of its answer
PosOfQuestion(k) == 1 + k + AnsweredUpTo(k - 1)

PosOfAnswer(k) == PosOfQuestion(k) + 1

\* the turn that the user message at position i belongs to
TurnOf(i) == Cardinality({j \in 1..i : IsHuman(chat_history[j])})

\* this run's Connect attempt failed: the sidebar drew the failure notice
ConnectFailed(scr) ==
    /\ event.kind = "connect"
    /\ Len(scr) > 0
    /\ scr[1] = Notice("error", FailedToConnectText)

ModelOps == {"llm_sql", "llm_answer"}

TurnSteps == {"llm_sql", "run", "llm_answer"}

CountOps(ops) == Cardinality({i \in 1..Len(events) : events[i].op \in ops})

(* ------------------------------- C1 ----------------------------------- *)

\* C1: generate_response never raises to its caller; it returns a string,
\* and whenever a step of the turn failed (building the chain or the model
\* clients included) that string is the fixed generic error message.
C1_NeverRaises ==
    last.called => (~last.raised /\ (last.failed => last.value = error_message))

(* ------------------------------- C2 ----------------------------------- *)

\* C2 as stated: after N submitted chat messages the log holds exactly
\* 1 + 2N messages.
C2_Original ==
    Seeded => Len(chat_history) = 1 + 2 * Len(turns)

\* C2 as amended: after N submitted chat messages the log holds exactly
\* 1 + N + A messages, A being the number of those turns in which
\* generate_response was called and returned: the greeting, then per turn
\* and in the order of the turns the user message, followed by the returned
\* text as an assistant message in those A turns only; a turn is among the
\* A turns only if the session had a handle.
C2_LogLength ==
    Seeded =>
        /\ Len(chat_history) = 1 + Len(turns) + AnsweredUpTo(Len(turns))
        /\ chat_history[1] = Greeting
        /\ \A k \in 1..Len(turns) :
            /\ chat_history[PosOfQuestion(k)] = HumanMessage(turns[k].question)
            /\ Answered(turns[k]) =>
                /\ turns[k].handle
                /\ chat_history[PosOfAnswer(k)] = AIMessage(turns[k].value)

C2_Witness ==
    /\ pc = "idle"
    /\ Len(turns) = 3
    /\ ~turns[1].handle
    /\ turns[2].outcome = "answer"
    /\ turns[3].outcome = "error"
    /\ Len(chat_history) = 6

(* ------------------------------- C3 ----------------------------------- *)

\* C3: a chat message submitted while the session has no handle does not
\* reach generate_response (no call on the model, none on the database),
\* and the log after the turn is the log before it with the one user
\* message appended.
C3_NoHandleNoCall ==
    [][(pc = "query" /\ event.kind = "chat" /\ db = None) =>
        /\ chat_history' = Append(chat_history, HumanMessage(event.text))
        /\ ~last'.called
        /\ events' = <<>>]_vars

C3_Witness ==
    /\ pc = "idle"
    /\ event.kind = "chat"
    /\ db = None
    /\ ~last.called
    /\ events = <<>>
    /\ chat_history = <<Greeting, HumanMessage("q1"), HumanMessage("q2")>>

(* ------------------------------- C4 ----------------------------------- *)

\* C4 as stated: in the state after any failed Connect the session handle
\* is unset, whatever Connect attempts preceded it.
C4_Original ==
    (pc = "display" /\ ConnectFailed(screen)) => db = None

\* C4 as amended: a failed Connect is caught at the connect call site (the
\* run goes on to draw the log) and leaves the session handle as it was
\* before the attempt: unset if it was unset, else the handle of the last
\* successful Connect.
C4_FailedConnectKeepsHandle ==
    [][(pc = "sidebar" /\ ConnectFailed(screen')) =>
        /\ pc' = "display"
        /\ db' = db
        /\ (db = None => db' = None)]_vars

C4_Witness ==
    /\ pc = "display"
    /\ ConnectFailed(screen)
    /\ db = SQLDatabase(DbUri(DefaultForm))
    /\ form = OtherForm

(* ------------------------------- C5 ----------------------------------- *)

\* C5: the log only grows at its end: in every step the log before the
\* step is a prefix of the log after it.
C5_AppendOnly ==
    [][IsPrefix(chat_history, chat_history')]_vars

C5_Witness ==
    /\ pc = "sidebar"
    /\ Len(chat_history) >= 4
    /\ \E k \in 1..Len(turns) : turns[k].outcome = "error"

(* ------------------------------- C6 ----------------------------------- *)

C7_SeedOnce ==
    /\ [](Seeded => (nSeeded = 1 /\ Len(chat_history) >= 1 /\ chat_history[1] = Greeting))
    /\ [][(pc = "init" /\ keys = {}) => (chat_history' = <<Greeting>> /\ db' = None)]_vars
    /\ [][(pc = "init" /\ keys # {}) =>
            (chat_history' = chat_history /\ db' = db /\ connector_db' = None)]_vars

C7_Witness ==
    /\ pc = "sidebar"
    /\ nSeeded = 1
    /\ Len(chat_history) >= 3
    /\ db # None
    /\ connector_db = None

(* ------------------------------- C8 ----------------------------------- *)

\* C8: within one generate_response call the first model call, the SQL
\* execution and the second model call happen in this order: the database
\* executes only the SQL the first model call of the same turn returned,
\* on the session's handle; the narration call comes only after a
\* successful execution; a failed step is followed by none of the three;
\* a successful turn makes two model calls and one execution.
C8_StepOrder ==
    /\ \A i \in 1..Len(events) : events[i].op = "run" =>
        /\ events[i].db = db.uri
        /\ \E j \in 1..(i - 1) :
            events[j].op = "llm_sql" /\ events[j].ok /\ events[j].sql = events[i].sql
    /\ \A i \in 1..Len(events) : events[i].op = "llm_answer" =>
        \E j \in 1..(i - 1) :
            events[j].op = "run" /\ events[j].ok /\ events[j].sql = events[i].sql
    /\ \A j \in 1..Len(events) : (events[j].op \in TurnSteps /\ ~events[j].ok) =>
        \A i \in (j + 1)..Len(events) : events[i].op \notin TurnSteps
    /\ CountOps({"llm_sql"}) <= 1 /\ CountOps({"run"}) <= 1 /\ CountOps({"llm_answer"}) <= 1
    /\ (last.called /\ ~last.raised /\ ~last.failed) =>
        (CountOps(ModelOps) = 2 /\ CountOps({"run"}) = 1)

C8_Witness ==
    /\ last.called
    /\ ~last.failed
    /\ Len(events) = 5
    /\ events[3].op = "run"
    /\ events[3].sql = "DROP TABLE t"
    /\ events[5].op = "llm_answer"

(* ------------------------------- C9 ----------------------------------- *)

\* C9: the first message of the log is the greeting, every other assistant
\* message directly follows a user message, and two user messages are
\* adjacent only when the turn of the first of them ran without a handle.
C9_LogShape ==
    Seeded =>
        /\ chat_history[1] = Greeting
        /\ \A i \in 2..Len(chat_history) :
            IsAI(chat_history[i]) => IsHuman(chat_history[i - 1])
        /\ \A i \in 1..(Len(chat_history) - 1) :
            (IsHuman(chat_history[i]) /\ IsHuman(chat_history[i + 1])) =>
                ~turns[TurnOf(i)].handle

(* ------------------------------- C10 ---------------------------------- *)

\* C10: a Connect attempt leaves the log as it is, a failed one also leaves
\* the session handle as it is; a chat turn leaves the session handle as
\* it is.
C10_Frames ==
    [][/\ pc = "sidebar" => chat_history' = chat_history
       /\ (pc = "sidebar" /\ ConnectFailed(screen')) => db' = db
       /\ pc = "query" => db' = db]_vars

C10_Witness ==
    /\ pc = "idle"
    /\ event.kind = "connect"
    /\ ConnectFailed(screen)
    /\ db # None
    /\ Len(turns) >= 1
    /\ turns[1].handle

====
